---- MODULE Spec2Model ----
(***************************************************************************)
(* dashboard.py: a Streamlit script that turns uploaded expense sheets     *)
(* into parquet snapshots kept in CACHE_DIR and shows filtered views of    *)
(* one of them.  Every user interaction runs the script once, from top to  *)
(* bottom; one action of this module is one such run.                      *)
(*                                                                         *)
(* Text is modelled as a sequence of tokens for file names (so that        *)
(* splitext, replace and glob are computed on the name) and as a TLA+      *)
(* string for cell values.  Money is kept in centavos.                     *)
(***************************************************************************)
EXTENDS Integers, Sequences, FiniteSets, TLC

VARIABLES
    cache_dir_existe,       \* os.path.exists(CACHE_DIR)
    arquivos,               \* the files of CACHE_DIR: file name -> stored frame
    dashboards_salvos,      \* line 91: the list computed by this run
    dashboard_selecionado,  \* line 93: the selectbox's value in this run
    saida                   \* what this run did and showed

vars == <<cache_dir_existe, arquivos, dashboards_salvos, dashboard_selecionado, saida>>

----------------------------------------------------------------------------
(* Bounds of the model. *)

\* Distinct categories of the large sheet (more than the 10 the chart keeps).
NumCategorias == 12
\* Rows of the large sheet.
NumLinhas == 14
\* Largest number of entries picked in a multiselect.
MaxSelecao == 2

----------------------------------------------------------------------------
(* Values. *)

\* An empty cell (pandas NaN), and the missing timestamp (pandas NaT).
NaN == "<NaN>"
NaT == [ano |-> 0, mes |-> 0, dia |-> 0]

\* The first option of the selectbox (line 95).
Nenhum == <<"Nenhum">>

\* Sentinels of the three filters (lines 123-128).
Todas == "Todas"
Todos == "Todos"

Range(s) == {s[i] : i \in 1..Len(s)}

\* str.lower() on the texts the model uses.
str_lower(s) ==
    CASE s = "Data" -> "data"
      [] s = "DESCRIÇÃO" -> "descrição"
      [] s = "Tipo" -> "tipo"
      [] s = "Valor" -> "valor"
      [] s = "Despesa" -> "despesa"
      [] s = "DESPESA" -> "despesa"
      [] s = "Despesa " -> "despesa "
      [] s = " Status " -> " status "
      [] s = "Centro de Custos" -> "centro de custos"
      [] s = "Obs" -> "obs"
      [] s = "Receita" -> "receita"
      [] s = "Pago" -> "pago"
      [] s = " Pago " -> " pago "
      [] s = "Em Aberto" -> "em aberto"
      [] OTHER -> s

\* str.strip() on the texts the model uses.
str_strip(s) ==
    CASE s = " status " -> "status"
      [] s = " Status " -> "Status"
      [] s = " pago " -> "pago"
      [] s = " Pago " -> "Pago"
      [] s = "despesa " -> "despesa"
      [] s = "Despesa " -> "Despesa"
      [] OTHER -> s

\* Series.astype(str): an empty cell becomes the text "nan".
astype_str(v) == IF v = NaN THEN "nan" ELSE v

\* Series.str.lower(): an empty cell stays empty.
series_str_lower(v) == IF v = NaN THEN NaN ELSE str_lower(v)

\* pd.to_datetime(errors='coerce') on the cells the model uses (line 63).
to_datetime(v) ==
    CASE v = "15/03/2024" -> [ano |-> 2024, mes |-> 3, dia |-> 15]
      [] v = "02/05/2024" -> [ano |-> 2024, mes |-> 5, dia |-> 2]
      [] v = "20/12/2023" -> [ano |-> 2023, mes |-> 12, dia |-> 20]
      [] OTHER -> NaT

\* strftime's %b in the default (English) locale.
strftime_b(m) ==
    <<"Jan", "Feb", "Mar", "Apr", "May", "Jun",
      "Jul", "Aug", "Sep", "Oct", "Nov", "Dec">>[m]

\* Lines 70-75: the month abbreviations replaced one after the other.
mapa_meses(b) ==
    CASE b = "Feb" -> "Fev"
      [] b = "Apr" -> "Abr"
      [] b = "May" -> "Mai"
      [] b = "Aug" -> "Ago"
      [] b = "Sep" -> "Set"
      [] b = "Oct" -> "Out"
      [] b = "Dec" -> "Dez"
      [] OTHER -> b

\* Line 69 and 74-75: '%Y-%m (%b)' as <<year, month, abbreviation>>.
mes_ano(d) == IF d = NaT THEN <<0, 0, NaN>> ELSE <<d.ano, d.mes, mapa_meses(strftime_b(d.mes))>>

\* Lines 64-65: 'R$' and '.' removed, ',' turned into '.', stripped, parsed;
\* what does not parse is 0.  In centavos.
valor_numerico(v) ==
    CASE astype_str(v) = "R$ 1.234,56" -> 123456
      [] astype_str(v) = "R$ 10,00" -> 1000
      [] astype_str(v) = "25,50" -> 2550
      [] astype_str(v) = "-5,00" -> -500
      [] astype_str(v) = "7,00" -> 700
      [] OTHER -> 0

----------------------------------------------------------------------------
(* File names: sequences of tokens.  A token that starts with a dot is an  *)
(* extension-like piece (".xlsx", ".parquet"); the others hold no dot.     *)

Pontuados == {".xlsx", ".parquet"}

\* The code point of a token's first character.
Codigo(t) ==
    CASE t = " " -> 32
      [] t \in Pontuados -> 46
      [] t = "_" -> 95
      [] t = "a" -> 97
      [] t = "b" -> 98
      [] OTHER -> 122

\* Python's str < str on names.
RECURSIVE Menor(_, _)
Menor(x, y) ==
    IF x = <<>> THEN y # <<>>
    ELSE IF y = <<>> THEN FALSE
    ELSE IF Codigo(Head(x)) # Codigo(Head(y)) THEN Codigo(Head(x)) < Codigo(Head(y))
    ELSE Menor(Tail(x), Tail(y))

\* os.path.splitext(p)[0]: cut at the last dot, unless only dots precede it.
splitext_raiz(p) ==
    LET pontos == {i \in 2..Len(p) : p[i] \in Pontuados}
    IN IF pontos = {} THEN p
       ELSE SubSeq(p, 1, (CHOOSE i \in pontos : \A j \in pontos : j <= i) - 1)

\* str.replace(" ", "_")
replace_espacos(p) == [i \in 1..Len(p) |-> IF p[i] = " " THEN "_" ELSE p[i]]

\* str.replace('.parquet', ''): every occurrence goes, not only the last.
replace_parquet(p) == SelectSeq(p, LAMBDA t : t # ".parquet")

\* Line 59.
nome_base(nome_upload) == replace_espacos(splitext_raiz(nome_upload))

\* Lines 60 and 113: os.path.join(CACHE_DIR, f"{nome}.parquet").
caminho_parquet(nome) == nome \o <<".parquet">>

\* glob.glob(CACHE_DIR/*.parquet): the names that end in .parquet; a pattern
\* that does not start with a dot skips the names that do.
glob_parquet(arqs) ==
    {f \in DOMAIN arqs : /\ Len(f) >= 1
                         /\ f[Len(f)] = ".parquet"
                         /\ f[1] \notin Pontuados}

\* sorted([...]) of the listed name of every file of S (duplicates stay).
RECURSIVE sorted_nomes(_)
sorted_nomes(S) ==
    IF S = {} THEN <<>>
    ELSE LET f == CHOOSE g \in S : \A h \in S : ~Menor(replace_parquet(h), replace_parquet(g))
         IN <<replace_parquet(f)>> \o sorted_nomes(S \ {f})

\* Lines 37-44.
get_lista_dashboards_salvos(existe, arqs) ==
    IF ~existe THEN <<>> ELSE sorted_nomes(glob_parquet(arqs))

----------------------------------------------------------------------------
(* Ingestion: processar_e_salvar_planilha. *)

\* Line 54.
colunas_necessarias ==
    <<"data", "descrição", "tipo", "valor", "despesa", "status", "centro de custos">>

\* Line 52.
df_columns(headers) == [i \in 1..Len(headers) |-> str_strip(str_lower(headers[i]))]

\* Line 55, with any() where the code has all().
validar_colunas_any(cols) == \E i \in 1..Len(colunas_necessarias) : colunas_necessarias[i] \in Range(cols)

\* Line 55.
validar_colunas(cols) == \A i \in 1..Len(colunas_necessarias) : colunas_necessarias[i] \in Range(cols)

\* Line 56, naming only the columns that are absent.
mensagem_colunas_ausentes(cols) == SelectSeq(colunas_necessarias, LAMBDA c : c \notin Range(cols))

\* Line 56: the columns the error message names.
mensagem_colunas(cols) == colunas_necessarias

\* The cell of a row under column c; a column the frame lacks reads as empty
\* (only 'descrição', 'despesa' and 'centro de custos', which lines 62-80 never index).
Celula(cols, linha, c) ==
    IF c \in Range(cols) THEN linha[CHOOSE i \in 1..Len(cols) : cols[i] = c] ELSE NaN

\* Lines 63-78 index these columns: a frame without one raises KeyError.
colunas_indexadas == {"data", "valor", "status", "tipo"}

\* A column with rows and no text cell is numeric, and .str raises AttributeError (line 77).
tipo_sem_texto(cols, linhas) ==
    /\ Len(linhas) > 0
    /\ \A i \in 1..Len(linhas) : Celula(cols, linhas[i], "tipo") = NaN

\* Lines 62-69: one row renamed and normalised.
normalizar(cols, linha) ==
    LET d == to_datetime(Celula(cols, linha, "data"))
    IN [data |-> d,
        descricao |-> Celula(cols, linha, "descrição"),
        tipo_lancamento |-> Celula(cols, linha, "tipo"),
        valor |-> Celula(cols, linha, "valor"),
        categoria |-> Celula(cols, linha, "despesa"),
        status |-> str_strip(str_lower(astype_str(Celula(cols, linha, "status")))),
        centro_custo |-> Celula(cols, linha, "centro de custos"),
        valor_numerico |-> valor_numerico(Celula(cols, linha, "valor")),
        valor_abs |-> valor_numerico(Celula(cols, linha, "valor")),
        mes_ano |-> mes_ano(d)]

\* Line 77 alone, without the dropna of line 78.
df_despesas_sem_dropna(df) ==
    SelectSeq(df, LAMBDA r : series_str_lower(r.tipo_lancamento) = "despesa")

\* Lines 77-78.
df_despesas(df) ==
    SelectSeq(SelectSeq(df, LAMBDA r : series_str_lower(r.tipo_lancamento) = "despesa"),
              LAMBDA r : r.data # NaT)

\* to_parquet preceded by os.makedirs(CACHE_DIR, exist_ok=True).
to_parquet_makedirs(existe, arqs, caminho, df) ==
    [ok |-> TRUE, existe |-> TRUE, arquivos |-> (caminho :> df) @@ arqs]

\* Line 80: writes the file, replacing one of the same name; raises when the
\* directory is absent.
to_parquet(existe, arqs, caminho, df) ==
    IF existe
    THEN [ok |-> TRUE, existe |-> existe, arquivos |-> (caminho :> df) @@ arqs]
    ELSE [ok |-> FALSE, existe |-> existe, arquivos |-> arqs]

ErroColunas == "Erro: Colunas ausentes"
ErroInesperado == "Ocorreu um erro inesperado ao processar o arquivo"
ErroNaoEncontrado == "Arquivo do dashboard não encontrado"
SemErro == ""

\* Lines 46-85.
processar_e_salvar_planilha(existe, arqs, arquivo_excel) ==
    LET cols == df_columns(arquivo_excel.headers)
        caminho_cache == caminho_parquet(nome_base(arquivo_excel.name))
        falha(erro, msg) ==
            [sucesso |-> FALSE, erro |-> erro, mensagem |-> msg, colunas |-> cols,
             caminho |-> <<>>, existe |-> existe, arquivos |-> arqs]
    IN IF ~validar_colunas(cols)
       THEN falha(ErroColunas, mensagem_colunas(cols))
       ELSE IF ~(colunas_indexadas \subseteq Range(cols)) \/ tipo_sem_texto(cols, arquivo_excel.linhas)
       THEN falha(ErroInesperado, <<>>)
       ELSE LET df == [i \in 1..Len(arquivo_excel.linhas) |-> normalizar(cols, arquivo_excel.linhas[i])]
                w == to_parquet(existe, arqs, caminho_cache, df_despesas(df))
            IN IF w.ok
               THEN [sucesso |-> TRUE, erro |-> SemErro, mensagem |-> <<>>, colunas |-> cols,
                     caminho |-> caminho_cache, existe |-> w.existe, arquivos |-> w.arquivos]
               ELSE [falha(ErroInesperado, <<>>) EXCEPT !.existe = w.existe, !.arquivos = w.arquivos]

----------------------------------------------------------------------------
(* The view: lines 111-176. *)

\* Python's order of the texts that are grouping keys ('A' < 'a').
OrdemTexto ==
    <<"Aluguel", "Filial", "Luz", "Matriz", "Obras",
      "c01", "c02", "c03", "c04", "c05", "c06", "c07", "c08",
      "c09", "c10", "c11", "c12", "c13", "c14", "c15", "c16">>

Posicao(s) == CHOOSE i \in 1..Len(OrdemTexto) : OrdemTexto[i] = s

\* Line 159: the number of groups the chart keeps.
TopN == 10

\* Lines 123, 125, 127: the options of the three filters.
categorias(df) == {Todas} \cup ({df[i].categoria : i \in 1..Len(df)} \ {NaN})
status_opcoes(df) == {Todos} \cup {df[i].status : i \in 1..Len(df)}
centros_custo(df) == {Todos} \cup ({astype_str(df[i].centro_custo) : i \in 1..Len(df)} \ {"nan"})

\* Lines 130-133 with the status filter left out.
df_filtrado_sem_status(df, categoria_selecionada, status_selecionado, centro_custo_selecionado) ==
    LET f1 == IF Todas \notin categoria_selecionada
              THEN SelectSeq(df, LAMBDA r : r.categoria \in categoria_selecionada) ELSE df
    IN IF Todos \notin centro_custo_selecionado
       THEN SelectSeq(f1, LAMBDA r : r.centro_custo \in centro_custo_selecionado) ELSE f1

\* Lines 130-133: the three filters, one after the other.
df_filtrado(df, categoria_selecionada, status_selecionado, centro_custo_selecionado) ==
    LET f1 == IF Todas \notin categoria_selecionada
              THEN SelectSeq(df, LAMBDA r : r.categoria \in categoria_selecionada) ELSE df
        f2 == IF status_selecionado # Todos
              THEN SelectSeq(f1, LAMBDA r : r.status = status_selecionado) ELSE f1
    IN IF Todos \notin centro_custo_selecionado
       THEN SelectSeq(f2, LAMBDA r : r.centro_custo \in centro_custo_selecionado) ELSE f2

\* Series.sum() of valor_abs.
RECURSIVE soma_valor_abs(_)
soma_valor_abs(df) == IF df = <<>> THEN 0 ELSE Head(df).valor_abs + soma_valor_abs(Tail(df))

\* The keys of S in Python's order.
RECURSIVE chaves_ordenadas(_)
chaves_ordenadas(S) ==
    IF S = {} THEN <<>>
    ELSE LET k == CHOOSE x \in S : \A y \in S : Posicao(x) <= Posicao(y)
         IN <<k>> \o chaves_ordenadas(S \ {k})

\* groupby('categoria')['valor_abs'].sum(): keys sorted, empty keys dropped.
groupby_categoria(df) ==
    LET ks == chaves_ordenadas({df[i].categoria : i \in 1..Len(df)} \ {NaN})
    IN [j \in 1..Len(ks) |->
          [chave |-> ks[j],
           total |-> soma_valor_abs(SelectSeq(df, LAMBDA r : r.categoria = ks[j]))]]

\* dropna(subset=['centro_custo']).groupby('centro_custo')['valor_abs'].sum()
groupby_centro_custo(df) ==
    LET ks == chaves_ordenadas({df[i].centro_custo : i \in 1..Len(df)} \ {NaN})
    IN [j \in 1..Len(ks) |->
          [chave |-> ks[j],
           total |-> soma_valor_abs(SelectSeq(df, LAMBDA r : r.centro_custo = ks[j]))]]

\* A group put into a descending series after every group of an equal or larger total.
RECURSIVE inserir_desc(_, _)
inserir_desc(s, g) ==
    IF s = <<>> THEN <<g>>
    ELSE IF Head(s).total >= g.total THEN <<Head(s)>> \o inserir_desc(Tail(s), g)
    ELSE <<g>> \o s

\* sort_values(ascending=False): descending, equal totals in their order.
RECURSIVE sort_values_desc(_)
sort_values_desc(s) ==
    IF s = <<>> THEN <<>>
    ELSE inserir_desc(sort_values_desc(SubSeq(s, 1, Len(s) - 1)), s[Len(s)])

\* A group put into an ascending series after every group of an equal or smaller total.
RECURSIVE inserir_asc(_, _)
inserir_asc(s, g) ==
    IF s = <<>> THEN <<g>>
    ELSE IF Head(s).total <= g.total THEN <<Head(s)>> \o inserir_asc(Tail(s), g)
    ELSE <<g>> \o s

\* sort_values(): ascending.
RECURSIVE sort_values(_)
sort_values(s) ==
    IF s = <<>> THEN <<>>
    ELSE inserir_asc(sort_values(SubSeq(s, 1, Len(s) - 1)), s[Len(s)])

\* Series.nlargest(n): the n largest, descending, the first of equal totals first.
nlargest(s, n) ==
    LET o == sort_values_desc(s)
    IN SubSeq(o, 1, IF Len(o) < n THEN Len(o) ELSE n)

\* Line 159 with head(10) where the code has nlargest(10).
top_categorias_head(df_f) == sort_values_desc(SubSeq(groupby_categoria(df_f), 1,
    IF Len(groupby_categoria(df_f)) < TopN THEN Len(groupby_categoria(df_f)) ELSE TopN))

\* Line 159.
top_categorias(df_f) == sort_values_desc(nlargest(groupby_categoria(df_f), TopN))

\* Line 167.
top_centros_custo(df_f) == sort_values(nlargest(groupby_centro_custo(df_f), TopN))

\* What a run shows when it draws no dashboard.
SemVisao ==
    [caminho_arquivo |-> <<>>, erro_visao |-> SemErro, removido |-> FALSE,
     categoria_selecionada |-> {}, status_selecionado |-> Todos,
     centro_custo_selecionado |-> {}, df_filtrado |-> <<>>, total_despesas |-> 0,
     top_categorias |-> <<>>, top_centros_custo |-> <<>>]

\* Lines 130-176: what the run shows of the frame it read.
visao(caminho_arquivo, df, categoria_selecionada, status_selecionado, centro_custo_selecionado) ==
    LET f == df_filtrado(df, categoria_selecionada, status_selecionado, centro_custo_selecionado)
    IN [caminho_arquivo |-> caminho_arquivo, erro_visao |-> SemErro, removido |-> FALSE,
        categoria_selecionada |-> categoria_selecionada,
        status_selecionado |-> status_selecionado,
        centro_custo_selecionado |-> centro_custo_selecionado,
        df_filtrado |-> f, total_despesas |-> soma_valor_abs(f),
        top_categorias |-> top_categorias(f), top_centros_custo |-> top_centros_custo(f)]

\* Lines 178-179: read_parquet or os.remove raised FileNotFoundError.
visao_nao_encontrado(caminho_arquivo) ==
    [SemVisao EXCEPT !.caminho_arquivo = caminho_arquivo, !.erro_visao = ErroNaoEncontrado]

\* os.remove that clears the directory.
os_remove_tudo(arqs, caminho) == [f \in {} |-> <<>>]

\* Line 119: os.remove of a file that exists.
os_remove(arqs, caminho) == [f \in DOMAIN arqs \ {caminho} |-> arqs[f]]

----------------------------------------------------------------------------
(* The sheets and file names the runs draw their upload from. *)

Cab_ok == <<"data", "descrição", "tipo", "valor", "despesa", "status", "centro de custos">>
Cab_misto == <<"Data", "DESCRIÇÃO", "Tipo", "Valor", "Despesa", " Status ", "Centro de Custos">>
Cab_sem_status == <<"data", "descrição", "tipo", "valor", "despesa", "centro de custos">>
Cab_sem_centro == <<"data", "descrição", "tipo", "valor", "despesa", "status", "Obs">>

\* Expenses in three spellings, a receipt, a bad date, a type with a trailing
\* blank, empty cells.
PlanilhaMista ==
    [id |-> "mista", headers |-> Cab_misto,
     linhas |-> << <<"15/03/2024", "aluguel", "Despesa", "R$ 1.234,56", "Aluguel", "Pago", "Matriz">>,
                   <<"02/05/2024", "conta", "DESPESA", "25,50", "Luz", " Pago ", NaN>>,
                   <<"02/05/2024", "venda", "Receita", "R$ 10,00", NaN, "Pago", "Matriz">>,
                   <<"n/d", "sem data", "despesa", "7,00", "Luz", "Em Aberto", "Filial">>,
                   <<"20/12/2023", "espaço", "Despesa ", "7,00", "Luz", "Pago", "Filial">>,
                   <<"20/12/2023", "vazio", "despesa", "abc", NaN, NaN, "Matriz">> >>]

PlanilhaVazia == [id |-> "vazia", headers |-> Cab_ok, linhas |-> <<>>]

PlanilhaSemStatus ==
    [id |-> "sem status", headers |-> Cab_sem_status,
     linhas |-> << <<"15/03/2024", "aluguel", "despesa", "R$ 10,00", "Aluguel", "Matriz">> >>]

PlanilhaSemCentro ==
    [id |-> "sem centro", headers |-> Cab_sem_centro,
     linhas |-> << <<"15/03/2024", "aluguel", "despesa", "R$ 10,00", "Aluguel", "pago", "nota">> >>]

\* The type column holds no text at all.
PlanilhaTipoVazio ==
    [id |-> "tipo vazio", headers |-> Cab_ok,
     linhas |-> << <<"15/03/2024", "aluguel", NaN, "R$ 10,00", "Aluguel", "pago", "Matriz">> >>]

Planilhas == {PlanilhaMista, PlanilhaVazia, PlanilhaSemStatus, PlanilhaSemCentro, PlanilhaTipoVazio}

ValoresGrande == <<"R$ 1.234,56", "R$ 10,00", "25,50", "-5,00", "7,00">>
StatusGrande == <<"Pago", "Em Aberto", NaN>>
CentrosGrande == <<"Matriz", "Filial", NaN, "Obras">>

\* NumLinhas expenses over NumCategorias categories.
PlanilhaGrande ==
    [id |-> "grande", headers |-> Cab_ok,
     linhas |-> [i \in 1..NumLinhas |->
        <<"15/03/2024", "item", "despesa",
          ValoresGrande[(i % Len(ValoresGrande)) + 1],
          OrdemTexto[5 + ((i - 1) % NumCategorias) + 1],
          StatusGrande[(i % Len(StatusGrande)) + 1],
          CentrosGrande[(i % Len(CentrosGrande)) + 1]>>]]

\* The names of the uploaded files (the uploader takes .xlsx only).
NomesUpload ==
    { <<"a", ".xlsx">>, <<"a", ".parquet", ".xlsx">>, <<"a", " ", "b", ".xlsx">>,
      <<"a", "_", "b", ".xlsx">> }

\* What the multiselect can return.
Selecoes(opcoes) == {S \in SUBSET opcoes : Cardinality(S) <= MaxSelecao}

----------------------------------------------------------------------------
(* The runs of the script. *)

SemArquivos == [f \in {} |-> <<>>]

SemIngest ==
    [upload |-> <<>>, planilha |-> "", colunas |-> <<>>, sucesso |-> FALSE, erro |-> SemErro,
     mensagem |-> <<>>, caminho |-> <<>>]

\* Lines 93-97: the selectbox returns one of its options.
opcoes_dashboard(lista) == {Nenhum} \cup Range(lista)

\* Lines 111-181 without the delete button: the dashboard selected is read and shown.
mostrar(arqs, selecionado, categoria_selecionada, status_selecionado, centro_custo_selecionado) ==
    IF selecionado = Nenhum THEN SemVisao
    ELSE LET caminho_arquivo == caminho_parquet(selecionado)
         IN IF caminho_arquivo \notin DOMAIN arqs
            THEN visao_nao_encontrado(caminho_arquivo)
            ELSE visao(caminho_arquivo, arqs[caminho_arquivo], categoria_selecionada,
                       status_selecionado, centro_custo_selecionado)

Init ==
    /\ cache_dir_existe \in BOOLEAN
    /\ arquivos = SemArquivos
    /\ dashboards_salvos = <<>>
    /\ dashboard_selecionado = Nenhum
    /\ saida = [op |-> "inicio"] @@ SemIngest @@ SemVisao

\* Lines 93-97 in a run started by a button: the selectbox keeps the value it
\* had, or falls back to its first option when that value is no longer offered.
selecionado_mantido(lista, anterior) ==
    IF anterior \in opcoes_dashboard(lista) THEN anterior ELSE Nenhum

\* A run with "Processar e Salvar" clicked (lines 91-109, then 111-184 when the
\* ingestion failed; st.rerun() ends the run when it succeeded).  The filters
\* stand at their defaults.
RunCarregar ==
    \E nome \in NomesUpload, p \in Planilhas :
    \E lista \in {get_lista_dashboards_salvos(cache_dir_existe, arquivos)} :
    \E sel \in {selecionado_mantido(lista, dashboard_selecionado)} :
    \E r \in {processar_e_salvar_planilha(cache_dir_existe, arquivos,
                 [name |-> nome, headers |-> p.headers, linhas |-> p.linhas])} :
        /\ dashboards_salvos' = lista
        /\ dashboard_selecionado' = sel
        /\ cache_dir_existe' = r.existe
        /\ arquivos' = r.arquivos
        /\ saida' = [op |-> "ingest", upload |-> nome, planilha |-> p.id, colunas |-> r.colunas,
                     sucesso |-> r.sucesso, erro |-> r.erro, mensagem |-> r.mensagem,
                     caminho |-> r.caminho]
                    @@ (IF r.sucesso THEN SemVisao
                        ELSE mostrar(r.arquivos, sel, {Todas}, Todos, {Todos}))

\* A run with the delete button clicked (lines 91-97, 111-120).
RunExcluir ==
    \E lista \in {get_lista_dashboards_salvos(cache_dir_existe, arquivos)} :
    \E sel \in Range(lista) :
        LET caminho_arquivo == caminho_parquet(sel)
        IN /\ dashboards_salvos' = lista
           /\ dashboard_selecionado' = sel
           /\ UNCHANGED cache_dir_existe
           /\ IF caminho_arquivo \in DOMAIN arquivos
              THEN /\ arquivos' = os_remove(arquivos, caminho_arquivo)
                   /\ saida' = [op |-> "excluir"] @@ SemIngest
                               @@ [SemVisao EXCEPT !.caminho_arquivo = caminho_arquivo,
                                                   !.removido = TRUE]
              ELSE /\ UNCHANGED arquivos
                   /\ saida' = [op |-> "excluir"] @@ SemIngest
                               @@ visao_nao_encontrado(caminho_arquivo)

\* A run that shows the selected dashboard under the chosen filters (lines 91-97, 111-181).
RunVer ==
    \E lista \in {get_lista_dashboards_salvos(cache_dir_existe, arquivos)} :
    \E sel \in Range(lista) :
        LET caminho_arquivo == caminho_parquet(sel)
        IN /\ dashboards_salvos' = lista
           /\ dashboard_selecionado' = sel
           /\ UNCHANGED <<cache_dir_existe, arquivos>>
           /\ IF caminho_arquivo \in DOMAIN arquivos
              THEN \E cat \in Selecoes(categorias(arquivos[caminho_arquivo])),
                      st \in status_opcoes(arquivos[caminho_arquivo]),
                      cc \in Selecoes(centros_custo(arquivos[caminho_arquivo])) :
                        saida' = [op |-> "ver"] @@ SemIngest @@ mostrar(arquivos, sel, cat, st, cc)
              ELSE saida' = [op |-> "ver"] @@ SemIngest
                            @@ mostrar(arquivos, sel, {Todas}, Todos, {Todos})

\* A run with no dashboard selected and no button clicked (lines 91-97, 183-184).
RunNenhum ==
    /\ dashboards_salvos' = get_lista_dashboards_salvos(cache_dir_existe, arquivos)
    /\ dashboard_selecionado' = Nenhum
    /\ UNCHANGED <<cache_dir_existe, arquivos>>
    /\ saida' = [op |-> "nenhum"] @@ SemIngest @@ SemVisao

Next == RunCarregar \/ RunExcluir \/ RunVer \/ RunNenhum

Spec == Init /\ [][Next]_vars

\* The view alone: a cache that holds one ingested sheet, and runs that show it.
InitVisao ==
    \E p \in {PlanilhaMista, PlanilhaGrande} :
        LET r == processar_e_salvar_planilha(TRUE, SemArquivos,
                     [name |-> <<"a", ".xlsx">>, headers |-> p.headers, linhas |-> p.linhas])
        IN /\ cache_dir_existe = TRUE
           /\ arquivos = r.arquivos
           /\ dashboards_salvos = <<>>
           /\ dashboard_selecionado = Nenhum
           /\ saida = [op |-> "inicio"] @@ SemIngest @@ SemVisao

\* The first run after the ingestion.
PrimeiraVisao == saida.op = "inicio" /\ RunVer

SpecVisao == InitVisao /\ [][PrimeiraVisao]_vars

----------------------------------------------------------------------------
(* Properties. *)

\* list() as the next run would compute it.
ListaAtual == get_lista_dashboards_salvos(cache_dir_existe, arquivos)

\* The required headers that the normalised headers lack.
Ausentes(cols) ==
    {"data", "descrição", "tipo", "valor", "despesa", "status", "centro de custos"} \ Range(cols)

\* How many times a name is listed.
Ocorrencias(lista, n) == Cardinality({i \in 1..Len(lista) : lista[i] = n})

PlanilhaDe(id) == CHOOSE p \in Planilhas \cup {PlanilhaGrande} : p.id = id

\* The rows of a sheet that are expenses with a date, as stored records.
Esperado(id) ==
    LET p == PlanilhaDe(id)
        cols == df_columns(p.headers)
        df == [i \in 1..Len(p.linhas) |-> normalizar(cols, p.linhas[i])]
    IN SelectSeq(df, LAMBDA r : /\ r.tipo_lancamento \in {"despesa", "Despesa", "DESPESA"}
                                /\ r.data # NaT)

\* C1: an ingestion of a sheet whose normalised headers lack a required header
\* returns failure and leaves the cache as it was: the same list, the same
\* files with the same content.
C1_ColunasAusentesCacheIntacto ==
    [][(saida'.op = "ingest" /\ Ausentes(saida'.colunas) # {})
         => /\ saida'.sucesso = FALSE
            /\ arquivos' = arquivos
            /\ cache_dir_existe' = cache_dir_existe
            /\ get_lista_dashboards_salvos(cache_dir_existe', arquivos') = ListaAtual]_vars

C1_Witness ==
    /\ saida.op = "ingest"
    /\ Ausentes(saida.colunas) = {"centro de custos"}
    /\ saida.sucesso = FALSE
    /\ Cardinality(DOMAIN arquivos) >= 2

\* C2: the program never creates the storage root: from a state where it is
\* absent every run leaves it absent, lists nothing, persists nothing, and an
\* ingestion returns failure.
C2_RaizNuncaCriada ==
    [][~cache_dir_existe
         => /\ ~cache_dir_existe'
            /\ dashboards_salvos' = <<>>
            /\ get_lista_dashboards_salvos(cache_dir_existe', arquivos') = <<>>
            /\ arquivos' = arquivos
            /\ DOMAIN arquivos' = {}
            /\ (saida'.op = "ingest" => saida'.sucesso = FALSE)]_vars

C2_Witness ==
    /\ ~cache_dir_existe
    /\ saida.op = "ingest"
    /\ saida.planilha = "mista"
    /\ Ausentes(saida.colunas) = {}
    /\ saida.sucesso = FALSE
    /\ saida.erro = ErroInesperado
    /\ dashboards_salvos = <<>>

\* C3: every record of every persisted snapshot is an expense (its entry type
\* is "despesa" whatever the case) with a date, and so is every record a view shows.
C3_SoDespesasComData ==
    /\ \A f \in DOMAIN arquivos : \A i \in 1..Len(arquivos[f]) :
          /\ arquivos[f][i].tipo_lancamento \in {"despesa", "Despesa", "DESPESA"}
          /\ arquivos[f][i].data # NaT
    /\ \A i \in 1..Len(saida.df_filtrado) :
          /\ saida.df_filtrado[i].tipo_lancamento \in {"despesa", "Despesa", "DESPESA"}
          /\ saida.df_filtrado[i].data # NaT

C3_Witness ==
    /\ saida.op = "ver"
    /\ saida.erro_visao = SemErro
    /\ arquivos[saida.caminho_arquivo] = Esperado("mista")
    /\ Len(arquivos[saida.caminho_arquivo]) = 3
    /\ Len(saida.df_filtrado) = 3

\* C4: a delete request for a listed name succeeds and takes the name off the
\* list; a second request for it right after removes nothing and is reported
\* as not found; every other snapshot stays as it was.
C4_ExcluirDuasVezes ==
    [][saida'.op = "excluir"
         => LET n == dashboard_selecionado'
            IN /\ \A f \in DOMAIN arquivos \ {caminho_parquet(n)} :
                     f \in DOMAIN arquivos' /\ arquivos'[f] = arquivos[f]
               /\ IF saida.op = "excluir" /\ saida.removido /\ dashboard_selecionado = n
                  THEN /\ saida'.erro_visao = ErroNaoEncontrado
                       /\ arquivos' = arquivos
                  ELSE /\ saida'.removido
                       /\ saida'.erro_visao = SemErro
                       /\ n \notin Range(get_lista_dashboards_salvos(cache_dir_existe', arquivos'))]_vars

\* C5: a successful ingestion under a name that is already stored leaves the
\* name listed exactly once, makes a read of the name return the records of this
\* ingestion, and leaves the snapshots of the other names as they were.
C5_SobrescreveNomeUnico ==
    [][(/\ saida'.op = "ingest"
        /\ saida'.sucesso
        /\ caminho_parquet(nome_base(saida'.upload)) \in DOMAIN arquivos)
         => LET n == nome_base(saida'.upload)
            IN /\ Ocorrencias(get_lista_dashboards_salvos(cache_dir_existe', arquivos'), n) = 1
               /\ caminho_parquet(n) \in DOMAIN arquivos'
               /\ arquivos'[caminho_parquet(n)] = Esperado(saida'.planilha)
               /\ \A f \in DOMAIN arquivos \ {caminho_parquet(n)} :
                     f \in DOMAIN arquivos' /\ arquivos'[f] = arquivos[f]]_vars

\* C6: a name enters the list only by an ingestion that passed the header check
\* and succeeded, a file is written only by such an ingestion, a name leaves
\* the list only by a delete of that name, and a run that only selects, filters
\* and aggregates leaves every file as it was.
C6_CicloDeVida ==
    [][\A antes \in {Range(ListaAtual)} :
       \A depois \in {Range(get_lista_dashboards_salvos(cache_dir_existe', arquivos'))} :
       /\ \A n \in depois \ antes :
             saida'.op = "ingest" /\ saida'.sucesso /\ Ausentes(saida'.colunas) = {}
       /\ \A f \in DOMAIN arquivos' :
             (f \notin DOMAIN arquivos \/ arquivos'[f] # arquivos[f])
                => saida'.op = "ingest" /\ saida'.sucesso /\ saida'.caminho = f
                   /\ Ausentes(saida'.colunas) = {}
       /\ \A n \in antes \ depois :
             saida'.op = "excluir" /\ saida'.removido /\ dashboard_selecionado' = n
       /\ \A f \in DOMAIN arquivos \ DOMAIN arquivos' :
             saida'.op = "excluir" /\ saida'.caminho_arquivo = f
                /\ f = caminho_parquet(dashboard_selecionado')
       /\ (saida'.op \in {"ver", "nenhum"}
             => arquivos' = arquivos /\ cache_dir_existe' = cache_dir_existe)]_vars

C6_Witness ==
    /\ saida.op = "ver"
    /\ saida.categoria_selecionada = {"Luz"}
    /\ saida.status_selecionado = "pago"
    /\ Len(saida.df_filtrado) = 1
    /\ Cardinality(DOMAIN arquivos) = 3

C8_FiltroConjuntivo ==
    (saida.op = "ver" /\ saida.erro_visao = SemErro)
       => LET df == arquivos[saida.caminho_arquivo]
              cat == saida.categoria_selecionada
              st == saida.status_selecionado
              cc == saida.centro_custo_selecionado
              passa(r) == /\ (Todas \in cat \/ r.categoria \in cat)
                          /\ (st = Todos \/ r.status = st)
                          /\ (Todos \in cc \/ r.centro_custo \in cc)
          IN /\ saida.df_filtrado = SelectSeq(df, passa)
             /\ (Todas \in cat /\ st = Todos /\ Todos \in cc => saida.df_filtrado = df)

C8_Witness ==
    /\ saida.op = "ver"
    /\ saida.erro_visao = SemErro
    /\ saida.categoria_selecionada = {"c01", "c02"}
    /\ saida.status_selecionado = "em aberto"
    /\ saida.centro_custo_selecionado = {"Filial", "Obras"}
    /\ Len(saida.df_filtrado) = 2
    /\ Len(arquivos[saida.caminho_arquivo]) = NumLinhas

\* The sum of valor_abs over the rows of a category.
RECURSIVE TotalCategoria(_, _)
TotalCategoria(df, c) ==
    IF df = <<>> THEN 0
    ELSE (IF Head(df).categoria = c THEN Head(df).valor_abs ELSE 0) + TotalCategoria(Tail(df), c)

\* C9: the category chart holds at most 10 groups, one per category, each with
\* the sum of the amounts of all the rows of its category, in descending order
\* of total; it holds 10 of them when the view has 10 categories or more, and no
\* category left out has a larger total than one it holds.
C9_TopDezCategorias ==
    (saida.op = "ver" /\ saida.erro_visao = SemErro)
       => LET t == saida.top_categorias
              f == saida.df_filtrado
              cats == {f[i].categoria : i \in 1..Len(f)} \ {NaN}
              dentro == {t[j].chave : j \in 1..Len(t)}
          IN /\ Len(t) <= 10
             /\ Len(t) = (IF Cardinality(cats) < 10 THEN Cardinality(cats) ELSE 10)
             /\ dentro \subseteq cats
             /\ Cardinality(dentro) = Len(t)
             /\ \A j \in 1..Len(t) : t[j].total = TotalCategoria(f, t[j].chave)
             /\ \A j \in 1..Len(t) - 1 : t[j].total >= t[j + 1].total
             /\ \A c \in cats \ dentro : \A j \in 1..Len(t) : TotalCategoria(f, c) <= t[j].total

C9_Witness ==
    /\ saida.op = "ver"
    /\ saida.erro_visao = SemErro
    /\ Len(saida.df_filtrado) = NumLinhas
    /\ Len(saida.top_categorias) = 10
    /\ Cardinality({saida.df_filtrado[i].categoria : i \in 1..Len(saida.df_filtrado)}) > 10
    /\ saida.top_categorias[1].total > saida.top_categorias[10].total
    /\ \E i \in 1..Len(saida.df_filtrado) :
          saida.df_filtrado[i].categoria \notin {saida.top_categorias[j].chave : j \in 1..10}

\* C10: after a successful ingestion the name derived from the upload is
\* listed, and every listed name, read back, opens the file it was listed from.
C10_NomeIdaEVolta ==
    /\ (saida.op = "ingest" /\ saida.sucesso) => nome_base(saida.upload) \in Range(ListaAtual)
    /\ \A f \in glob_parquet(arquivos) : caminho_parquet(replace_parquet(f)) = f

====
